---- MODULE Spec2Model ----
(***************************************************************************)
(* Execution ordering and lifecycle coordination of                        *)
(* NotebookKernelExecution (src/src/kernels/kernelExecution.ts).           *)
(*                                                                         *)
(* The class is single threaded: every handler runs to its next await, so  *)
(* every action below is one synchronous stretch of a handler (from its    *)
(* entry, or from the await it resumes at, to the next await or return).   *)
(*                                                                         *)
(* CellExecutionQueue, CodeExecution and the kernel are collaborators of   *)
(* the class; their behaviour follows sections 4.1, 4.3, 4.4 and 6 of the  *)
(* specification.                                                          *)
(***************************************************************************)
EXTENDS Integers, Sequences, FiniteSets, TLC

\* Bounds of the model.
MaxCalls == 3
\* Output deltas one Request emits.
MaxOutputs == 3
\* Every call constructs at most one Queue.
MaxQueues == MaxCalls
\* kernel.start calls made by executeCell and resumeCellExecution.
MaxStarts == 2
\* Session instances the kernel has over its life.
MaxSessions == 3

Calls == 1..MaxCalls
QueueIds == 1..MaxQueues

\* The extension ids executeCode distinguishes.
JVSC_EXTENSION_ID == "ms-toolsai.jupyter"
POWER_TOYS_EXTENSION_ID == "ms-toolsai.vscode-jupyter-powertoys"
ThirdPartyExtensionId == "third.party"
ExtensionIds == {JVSC_EXTENSION_ID, POWER_TOYS_EXTENSION_ID, ThirdPartyExtensionId}

VARIABLES
    nCalls,       \* number of executeCell / executeCode calls made so far
    kind,         \* call -> "none" | "cell" (executeCell) | "internal" | "external"
                  \*         (executeCode of an internal, of any other extension)
    sp,           \* call -> state of the sessionPromise executeCell awaits, or an
                  \*         internal executeCode starts on ("none": no such promise)
    st,           \* call -> lifecycle state of the call's Request / Unit
    cause,        \* call -> cause recorded with the terminal state
    qOf,          \* call -> Queue the Unit was put in (0: none)
    sent,         \* call -> the request was transmitted on a session
    intr,         \* call -> an interrupt was requested for the running Unit
    nQueues,      \* number of CellExecutionQueue instances constructed
    docQ,         \* documentExecutions.get(notebook) (0: undefined)
    qsp,          \* queue -> state of the sessionPromise the Queue is bound to
    qGen,         \* queue -> the session that promise is for: "current", "next"
                  \*          (that of the restart in progress), "stale" (a session
                  \*          a completed restart has replaced)
    failed,       \* queue -> CellExecutionQueue.failed
    items,        \* queue -> Units queued or running, in order
    restarting,   \* kernel.restarting is pending
    int,          \* the onWillInterrupt invocation in flight
    rst,          \* the onWillRestart invocation in flight
    enqOrder,     \* history: Units in the order they were enqueued
    cancelSnap,   \* history: Units that were queued when a hook asked to cancel
    mustPrecede,  \* history: call -> Units under an unresolved cancel at its enqueue
    \* One executeCode call seen from its consumer (the output loop):
    gen,          \* where the generator is: "start" (not pulled yet), "race" (at the
                  \*   await of Promise.race), "yield", "returned", "threw"
    req,          \* lifecycle state of the call's Request
    outputs,      \* the array `outputs`
    outputsReceived, \* the deferred the pending race reads: "pending" | "resolved"
    completed,    \* the flag `completed`
    done,         \* the deferred `done`: "pending" | "resolved" | "rejected"
    emitted,      \* history: number of output deltas the Request emitted (1, 2, ...)
    seen,         \* history: the outputs the consumer was handed, in order
    triggers,     \* history: the termination triggers that occurred
    first,        \* history: the result the first trigger asked for
    fired,        \* history: times the completion signal fired
    finallyRan,   \* history: times the completion callback ran
    ended,        \* history: times the consumer saw the sequence end
    lateOutput,   \* history: an output arrived while the generator was at a yield
    ext,          \* the call's extension: "none" | "internal" | "external"
    codeSession,  \* the call's sessionPromise: "none" | "pending" | "resolved" | "rejected"
    started,      \* the Request was started on a session
    token,        \* token.isCancellationRequested
    tokenAtStart, \* history: the token was cancelled when executeCode was called
    \* The entry points and event handlers, one invocation at a time:
    documentExecutions, \* documentExecutions.get(notebook): index in queues (0: undefined)
    queues,       \* the CellExecutionQueue instances constructed, in order; each has
                  \*   its close handler registered
    cells,        \* slot -> the executeCell / resumeCellExecution call in flight
    kernelStarts, \* history: number of kernel.start calls
    handler,      \* the interrupt / restart handler awaiting the Queue
    trace,        \* history: the last invocation, the operations it performed in
                  \*   order, what its wait gave and what it gave its caller
    \* The broadcast (iopub) display-update handler:
    constructed,  \* the constructor has run
    kernelSession, \* kernel.session: a session instance (0: undefined)
    hookedSesions, \* the set `hookedSesions`
    connected,    \* session -> handlers connected to its iopubMessage signal
    rehooked,     \* history: hookupIOPubHandler ran for a session already hooked
    lastMessage,  \* history: the last iopub message a session delivered
    displayUpdates \* history: onDidReceiveDisplayUpdate events that message fired

qvars == <<nQueues, docQ, qsp, qGen, failed, items>>
uvars == <<st, cause, sent, intr>>
cvars == <<nCalls, kind, sp, qOf>>
kvars == <<restarting>>
hvars == <<int, rst>>
gvars == <<enqOrder, cancelSnap, mustPrecede>>
mvars == <<cvars, uvars, qvars, kvars, hvars, gvars>>
rvars == <<ext, codeSession, started, token, tokenAtStart>>
ovars == <<gen, req, outputs, outputsReceived, completed, done, emitted, seen,
           triggers, first, fired, finallyRan, ended, lateOutput, rvars>>
evars == <<documentExecutions, queues, cells, kernelStarts, handler, trace>>
ivars == <<constructed, kernelSession, hookedSesions, connected, rehooked,
           lastMessage, displayUpdates>>
svars == <<ovars, evars, ivars>>
vars == <<mvars, svars>>

\* Calls of executeCell / resumeCellExecution awaiting their cell at one time.
Slots == 1 .. 2
CellKinds == {"code", "markup"}
\* The documents a close event can be for: this.notebook and any other.
Documents == {"notebook", "other"}
Errors == {"CellExecutionError", "CancellationError"}
Outcomes == {"ok"} \cup Errors

NoCell == [q |-> 0, unit |-> "none", outcome |-> "none", resumed |-> FALSE]

NoHandler == [op |-> "none", q |-> 0, hadUnits |-> FALSE]

NoTrace == [op |-> "none", cellKind |-> "none", q |-> 0, e |-> "none",
            isEmpty |-> TRUE, failed |-> FALSE, calls |-> <<>>,
            wait |-> "none", result |-> "none"]

Sessions == 1 .. MaxSessions
MessageTypes == {"update_display_data", "display_data", "stream"}

NoMessage == [from |-> 0, msg_type |-> "none", tracked |-> FALSE]

----------------------------------------------------------------------------
\* Helpers

SeqToSet(s) == {s[i] : i \in 1..Len(s)}

Terminal(s) == s \in {"Succeeded", "Failed", "Cancelled"}

IsInternalExtension(extensionId) ==
    extensionId = JVSC_EXTENSION_ID \/ extensionId = POWER_TOYS_EXTENSION_ID

CodeKind(extensionId) ==
    IF IsInternalExtension(extensionId) THEN "internal" ELSE "external"

IsEmpty(q) == items[q] = <<>>

\* kernel.restarting.then(() => kernel.start(...)): the promise is for the session
\* of the restart in progress, if any.
StartAfterRestarting == IF restarting THEN "waitRestart" ELSE "pending"

SessionGeneration == IF restarting THEN "next" ELSE "current"

IdleInt == [pc |-> "idle", q |-> 0, awaits |-> 0, forced |-> FALSE,
            cancelIssued |-> FALSE, cancelResolved |-> FALSE, waitCalled |-> FALSE]

IdleRst == [pc |-> "idle", q |-> 0, snap |-> {}, given |-> FALSE, session |-> FALSE,
            settled |-> FALSE, forced |-> FALSE, chain |-> "none",
            cancelIssued |-> FALSE, cancelResolved |-> FALSE, waitCalled |-> FALSE]

Init ==
    /\ nCalls = 0
    /\ kind = [c \in Calls |-> "none"]
    /\ sp = [c \in Calls |-> "none"]
    /\ st = [c \in Calls |-> "none"]
    /\ cause = [c \in Calls |-> "none"]
    /\ qOf = [c \in Calls |-> 0]
    /\ sent = [c \in Calls |-> FALSE]
    /\ intr = [c \in Calls |-> FALSE]
    /\ nQueues = 0
    /\ docQ = 0
    /\ qsp = [q \in QueueIds |-> "none"]
    /\ qGen = [q \in QueueIds |-> "current"]
    /\ failed = [q \in QueueIds |-> FALSE]
    /\ items = [q \in QueueIds |-> <<>>]
    /\ restarting = FALSE
    /\ int = IdleInt
    /\ rst = IdleRst
    /\ enqOrder = <<>>
    /\ cancelSnap = {}
    /\ mustPrecede = [c \in Calls |-> {}]
    /\ gen = "start"
    /\ req = "none"
    /\ outputs = <<>>
    /\ outputsReceived = "pending"
    /\ completed = FALSE
    /\ done = "pending"
    /\ emitted = 0
    /\ seen = <<>>
    /\ triggers = {}
    /\ first = "none"
    /\ fired = 0
    /\ finallyRan = 0
    /\ ended = 0
    /\ lateOutput = FALSE
    /\ ext = "none"
    /\ codeSession = "none"
    /\ started = FALSE
    /\ token = FALSE
    /\ tokenAtStart = FALSE
    /\ documentExecutions = 0
    /\ queues = <<>>
    /\ cells = [s \in Slots |-> NoCell]
    /\ kernelStarts = 0
    /\ handler = NoHandler
    /\ trace = NoTrace
    /\ constructed = FALSE
    /\ kernelSession = 0
    /\ hookedSesions = {}
    /\ connected = [i \in 0 .. MaxSessions |-> 0]
    /\ rehooked = FALSE
    /\ lastMessage = NoMessage
    /\ displayUpdates = 0

----------------------------------------------------------------------------
\* Request and Unit (specification 4.1, 4.3)

\* Variant: the last writer wins.
RequestComplete_LastWins(cur, result) == result

\* Request.complete(result) on a Request in state cur: the first writer wins, a
\* later call is ignored.
RequestComplete(cur, result) == IF Terminal(cur) THEN cur ELSE result

Complete(stf, c, result) == [stf EXCEPT ![c] = RequestComplete(stf[c], result)]

CompleteCause(cf, stf, c, why) ==
    IF Terminal(stf[c]) THEN cf ELSE [cf EXCEPT ![c] = why]

\* Entering a terminal state releases the Unit's place in its Queue.
Release(itf, c) ==
    IF qOf[c] = 0 THEN itf
    ELSE [itf EXCEPT ![qOf[c]] = SelectSeq(@, LAMBDA u : u # c)]

\* Variant: a Unit that fails takes the Units queued behind it with it.
UnitEnds_AbortsSiblings(c, result, why) ==
    LET hit == IF result = "Failed" /\ qOf[c] # 0
               THEN {u \in SeqToSet(items[qOf[c]]) : st[u] = "Queued"}
               ELSE {}
    IN /\ st' = [u \in Calls |-> IF u \in hit THEN "Cancelled"
                               ELSE Complete(st, c, result)[u]]
       /\ cause' = [u \in Calls |-> IF u \in hit THEN why
                                  ELSE CompleteCause(cause, st, c, why)[u]]
       /\ items' = [q \in QueueIds |->
                        SelectSeq(Release(items, c)[q], LAMBDA u : u \notin hit)]
       /\ intr' = [intr EXCEPT ![c] = FALSE]
       /\ mustPrecede' = [mustPrecede EXCEPT ![c] = {}]
       /\ UNCHANGED <<cvars, sent, nQueues, docQ, qsp, qGen, failed, kvars, hvars,
                      enqOrder, cancelSnap>>
       /\ UNCHANGED svars

\* A Unit ends with result: its completion, its place in the Queue, and the
\* interrupt request, which is spent.
UnitEnds(c, result, why) ==
    /\ st' = Complete(st, c, result)
    /\ cause' = CompleteCause(cause, st, c, why)
    /\ items' = Release(items, c)
    /\ intr' = [intr EXCEPT ![c] = FALSE]
    /\ mustPrecede' = [mustPrecede EXCEPT ![c] = {}]
    /\ UNCHANGED <<cvars, sent, nQueues, docQ, qsp, qGen, failed, kvars, hvars,
                   enqOrder, cancelSnap>>
    /\ UNCHANGED svars

----------------------------------------------------------------------------
\* CellExecutionQueue (specification 4.4)

\* enqueue: append a new Unit at the tail.
Enqueue(q, c) ==
    /\ items' = [items EXCEPT ![q] = Append(@, c)]
    /\ st' = [st EXCEPT ![c] = "Queued"]
    /\ qOf' = [qOf EXCEPT ![c] = q]

\* The Units of q a cancel(forceful) ends at once: every Unit not yet started,
\* and with forceful the running Unit as well.
CancelledBy(q, forceful) ==
    {u \in SeqToSet(items[q]) : st[u] = "Queued" \/ (forceful /\ st[u] = "Running")}

\* The running Unit of q a cancel(forceful) leaves running, 0 if none: it was
\* asked to stop and ends when the remote side answers.
InterruptedBy(q, forceful) ==
    IF forceful \/ {u \in SeqToSet(items[q]) : st[u] = "Running"} = {} THEN 0
    ELSE CHOOSE u \in SeqToSet(items[q]) : st[u] = "Running"

\* cancel(forceful), the part that runs when it is called.
QueueCancel(q, forceful) ==
    LET hit == CancelledBy(q, forceful)
        asked == InterruptedBy(q, forceful)
    IN /\ st' = [u \in Calls |-> IF u \in hit THEN "Cancelled" ELSE st[u]]
       /\ cause' = [u \in Calls |-> IF u \in hit THEN "Cancelled" ELSE cause[u]]
       /\ intr' = [u \in Calls |-> IF u = asked THEN TRUE
                                ELSE IF u \in hit THEN FALSE ELSE intr[u]]
       /\ items' = [items EXCEPT ![q] = SelectSeq(@, LAMBDA u : u \notin hit)]
       /\ UNCHANGED sent

\* admitNext: the head Unit starts once the bound session has resolved; the
\* Unit running stays at the head until it is terminal.
QueueAdmit(q) ==
    /\ q <= nQueues
    /\ ~failed[q]
    /\ items[q] # <<>>
    /\ qsp[q] = "resolved"
    /\ st[Head(items[q])] = "Queued"
    /\ st' = [st EXCEPT ![Head(items[q])] = "Running"]
    /\ sent' = [sent EXCEPT ![Head(items[q])] = TRUE]
    /\ UNCHANGED <<cvars, cause, intr, qvars, kvars, hvars, gvars>>
    /\ UNCHANGED svars

\* admitNext when the bound session promise has rejected: the Queue is failed and
\* every queued Unit is cancelled with the session error.
QueueSessionRejected(q) ==
    /\ q <= nQueues
    /\ ~failed[q]
    /\ items[q] # <<>>
    /\ qsp[q] = "rejected"
    /\ failed' = [failed EXCEPT ![q] = TRUE]
    /\ st' = [u \in Calls |-> IF u \in SeqToSet(items[q]) /\ st[u] = "Queued"
                              THEN "Cancelled" ELSE st[u]]
    /\ cause' = [u \in Calls |-> IF u \in SeqToSet(items[q]) /\ st[u] = "Queued"
                                 THEN "SessionUnavailable" ELSE cause[u]]
    /\ items' = [items EXCEPT ![q] = SelectSeq(@, LAMBDA u : st[u] # "Queued")]
    /\ UNCHANGED <<cvars, sent, intr, nQueues, docQ, qsp, qGen, kvars, hvars, gvars>>
    /\ UNCHANGED svars

\* The Units a cancel that has not resolved is still waiting for: cancel(false)
\* waits for the Unit it asked to stop; every other Unit it covered, and every
\* Unit of a cancel(true), was ended when it was called.
UnderUnresolvedCancel ==
    IF int.pc = "cancelling" /\ int.awaits # 0 THEN {int.awaits} ELSE {}

----------------------------------------------------------------------------
\* A running Unit ends (specification 4.3)

\* The terminal reply, or the remote side's answer to an interrupt.
UnitReply(c, result) ==
    /\ st[c] = "Running"
    /\ result \in {"Succeeded", "Failed"} \cup (IF intr[c] THEN {"Cancelled"} ELSE {})
    /\ UnitEnds(c, result, IF result = "Failed" THEN "RemoteExecutionError" ELSE result)

\* The session connection drops before the terminal reply.
UnitSessionLost(c) ==
    /\ st[c] = "Running"
    /\ UnitEnds(c, "Failed", "SessionLost")

----------------------------------------------------------------------------
\* NotebookKernelExecution.getOrCreateCellExecutionQueue

\* Variant: a new Queue for every call.
CanReuse_Never == FALSE

\* Variant: a Queue whose running Unit was asked to stop is not used again.
CanReuse_UnlessInterrupted ==
    /\ docQ # 0
    /\ ~IsEmpty(docQ)
    /\ ~failed[docQ]
    /\ \A u \in SeqToSet(items[docQ]) : ~intr[u]

\* Variant: a failed Queue is used again.
CanReuse_FailedToo == docQ # 0 /\ (~IsEmpty(docQ) \/ failed[docQ])

\* Variant: the test of isEmpty is inverted.
CanReuse_WhenEmpty == docQ # 0 /\ IsEmpty(docQ) /\ ~failed[docQ]

\* Re-use the existing Queue if it can be used.
CanReuse == docQ # 0 /\ ~IsEmpty(docQ) /\ ~failed[docQ]

\* q is the Queue returned; a new Queue is bound to sessionPromise.
GetOrCreateCellExecutionQueue(q, sessionPromise) ==
    IF CanReuse
    THEN /\ q = docQ
         /\ UNCHANGED <<nQueues, docQ, qsp, qGen>>
    ELSE /\ nQueues < MaxQueues
         /\ q = nQueues + 1
         /\ nQueues' = q
         /\ docQ' = q
         /\ qsp' = [qsp EXCEPT ![q] = sessionPromise]
         /\ qGen' = [qGen EXCEPT ![q] = SessionGeneration]

\* What the histories record when call c is enqueued.
NoteEnqueued(c) ==
    /\ enqOrder' = Append(enqOrder, c)
    /\ mustPrecede' = [mustPrecede EXCEPT ![c] = UnderUnresolvedCancel]

----------------------------------------------------------------------------
\* NotebookKernelExecution.executeCell

\* executeCell up to `await sessionPromise`.
ExecuteCellCall ==
    /\ nCalls < MaxCalls
    /\ nCalls' = nCalls + 1
    /\ kind' = [kind EXCEPT ![nCalls + 1] = "cell"]
    /\ sp' = [sp EXCEPT ![nCalls + 1] = StartAfterRestarting]
    /\ UNCHANGED <<qOf, uvars, qvars, kvars, hvars, gvars>>
    /\ UNCHANGED svars

\* sessionPromise resolves and executeCell goes on: the cell is queued.
ExecuteCellResume(c) ==
    /\ kind[c] = "cell"
    /\ sp[c] = "pending"
    /\ sp' = [sp EXCEPT ![c] = "resolved"]
    /\ \E q \in QueueIds :
          /\ GetOrCreateCellExecutionQueue(q, "resolved")
          /\ Enqueue(q, c)
    /\ NoteEnqueued(c)
    /\ UNCHANGED <<nCalls, kind, cause, sent, intr, failed, kvars, hvars,
                   cancelSnap>>
    /\ UNCHANGED svars

\* sessionPromise rejects and `await sessionPromise` throws: nothing is queued.
ExecuteCellThrow(c) ==
    /\ kind[c] = "cell"
    /\ sp[c] = "pending"
    /\ sp' = [sp EXCEPT ![c] = "rejected"]
    /\ UNCHANGED <<nCalls, kind, qOf, uvars, qvars, kvars, hvars, gvars>>
    /\ UNCHANGED svars

----------------------------------------------------------------------------
\* NotebookKernelExecution.executeCode, up to the output loop

\* The internal extensions bypass the Queue: CodeExecution.fromCode, started
\* as soon as the session promise resolves.
ExecuteCodeInternal(extensionId) ==
    /\ nCalls < MaxCalls
    /\ nCalls' = nCalls + 1
    /\ kind' = [kind EXCEPT ![nCalls + 1] = CodeKind(extensionId)]
    /\ sp' = [sp EXCEPT ![nCalls + 1] = StartAfterRestarting]
    /\ st' = [st EXCEPT ![nCalls + 1] = "Queued"]
    /\ UNCHANGED <<qOf, cause, sent, intr, qvars, kvars, hvars, gvars>>
    /\ UNCHANGED svars

\* Code of any other extension is queued at once, before the session resolves.
ExecuteCodeQueued(extensionId) ==
    /\ nCalls < MaxCalls
    /\ nCalls' = nCalls + 1
    /\ kind' = [kind EXCEPT ![nCalls + 1] = CodeKind(extensionId)]
    /\ \E q \in QueueIds :
          /\ GetOrCreateCellExecutionQueue(q, StartAfterRestarting)
          /\ Enqueue(q, nCalls + 1)
    /\ NoteEnqueued(nCalls + 1)
    /\ UNCHANGED <<sp, cause, sent, intr, failed, kvars, hvars, cancelSnap>>
    /\ UNCHANGED svars

\* Variant: every extension bypasses the Queue.
ExecuteCode_Bypass(extensionId) == ExecuteCodeInternal(extensionId)

ExecuteCode(extensionId) ==
    IF IsInternalExtension(extensionId)
    THEN ExecuteCodeInternal(extensionId)
    ELSE ExecuteCodeQueued(extensionId)

\* sessionPromise.then((session) => result.start(session)) of a call that
\* bypassed the Queue.
ResultStart(c) ==
    /\ kind[c] # "cell"
    /\ sp[c] = "pending"
    /\ sp' = [sp EXCEPT ![c] = "resolved"]
    /\ st' = [st EXCEPT ![c] = "Running"]
    /\ sent' = [sent EXCEPT ![c] = TRUE]
    /\ UNCHANGED <<nCalls, kind, qOf, cause, intr, qvars, kvars, hvars, gvars>>
    /\ UNCHANGED svars

\* The kernel settles the session promise a Queue with Units is bound to.
SessionResolve(q) ==
    /\ qsp[q] = "pending"
    /\ ~IsEmpty(q)
    /\ qsp' = [qsp EXCEPT ![q] = "resolved"]
    /\ UNCHANGED <<cvars, uvars, nQueues, docQ, qGen, failed, items, kvars, hvars, gvars>>
    /\ UNCHANGED svars

SessionReject(q) ==
    /\ qsp[q] = "pending"
    /\ ~IsEmpty(q)
    /\ qsp' = [qsp EXCEPT ![q] = "rejected"]
    /\ UNCHANGED <<cvars, uvars, nQueues, docQ, qGen, failed, items, kvars, hvars, gvars>>
    /\ UNCHANGED svars

\* The kernel rejects the session promise of a call that bypassed the Queue: the
\* CodeExecution is never started.
ResultNeverStarts(c) ==
    /\ kind[c] # "cell"
    /\ sp[c] = "pending"
    /\ sp' = [sp EXCEPT ![c] = "rejected"]
    /\ UNCHANGED <<nCalls, kind, qOf, uvars, qvars, kvars, hvars, gvars>>
    /\ UNCHANGED svars

----------------------------------------------------------------------------
\* The lifecycle hooks

\* The Units of q not yet started: a cancel must keep them from starting.
QueuedIn(q) == {u \in SeqToSet(items[q]) : st[u] = "Queued"}

\* cancel(forceful) resolves once the Unit it asked to stop is terminal.
CancelSettled(awaited) == IF awaited = 0 THEN TRUE ELSE Terminal(st[awaited])

\* onWillInterrupt up to `await executionQueue.cancel()`.  The kernel runs its
\* hooks for one lifecycle request at a time: no interrupt during a restart.
OnWillInterrupt ==
    /\ int.pc = "idle"
    /\ ~restarting
    /\ IF docQ = 0
       THEN /\ int' = IdleInt
            /\ UNCHANGED <<uvars, items, cancelSnap>>
       ELSE /\ QueueCancel(docQ, FALSE)
            /\ cancelSnap' = cancelSnap \cup QueuedIn(docQ)
            /\ int' = [IdleInt EXCEPT !.pc = "cancelling", !.q = docQ,
                                      !.awaits = InterruptedBy(docQ, FALSE),
                                      !.cancelIssued = TRUE]
    /\ UNCHANGED <<cvars, nQueues, docQ, qsp, qGen, failed, kvars, rst,
                   enqOrder, mustPrecede>>
    /\ UNCHANGED svars

\* Variant: cancel() is not awaited.
OnWillInterruptWait_NotAwaited ==
    /\ int.pc = "cancelling"
    /\ int' = [int EXCEPT !.pc = "waiting", !.cancelResolved = CancelSettled(int.awaits),
                           !.waitCalled = TRUE]
    /\ UNCHANGED <<cvars, uvars, qvars, kvars, rst, gvars>>
    /\ UNCHANGED svars

\* cancel() has resolved: `await executionQueue.waitForCompletion().catch(noop)`.
OnWillInterruptWait ==
    /\ int.pc = "cancelling"
    /\ CancelSettled(int.awaits)
    /\ int' = [int EXCEPT !.pc = "waiting", !.cancelResolved = TRUE, !.waitCalled = TRUE]
    /\ UNCHANGED <<cvars, uvars, qvars, kvars, rst, gvars>>
    /\ UNCHANGED svars

\* Variant: waitForCompletion() settles only when a Unit it saw in the Queue ends.
OnWillInterruptDone_NeedsAUnit ==
    /\ int.pc = "waiting"
    /\ int.awaits # 0
    /\ IsEmpty(int.q)
    /\ int' = IdleInt
    /\ UNCHANGED <<cvars, uvars, qvars, kvars, rst, gvars>>
    /\ UNCHANGED svars

\* waitForCompletion() settles once the Queue has drained; the handler returns.
OnWillInterruptDone ==
    /\ int.pc = "waiting"
    /\ IsEmpty(int.q)
    /\ int' = IdleInt
    /\ UNCHANGED <<cvars, uvars, qvars, kvars, rst, gvars>>
    /\ UNCHANGED svars

\* Variant: the Queue is not cancelled.
OnWillCancel_NoCancel ==
    /\ cancelSnap' = IF docQ = 0 THEN cancelSnap ELSE cancelSnap \cup QueuedIn(docQ)
    /\ UNCHANGED <<cvars, uvars, qvars, kvars, hvars, enqOrder, mustPrecede>>
    /\ UNCHANGED svars

\* onWillCancel: cancel(true) on the document's Queue, if there is one.
OnWillCancel ==
    /\ IF docQ = 0
       THEN UNCHANGED <<uvars, items, cancelSnap>>
       ELSE /\ QueueCancel(docQ, TRUE)
            /\ cancelSnap' = cancelSnap \cup QueuedIn(docQ)
    /\ UNCHANGED <<cvars, nQueues, docQ, qsp, qGen, failed, kvars, hvars,
                   enqOrder, mustPrecede>>
    /\ UNCHANGED svars

\* Variant: pendingCells only waits for the Queue, without cancelling it, and the
\* handler does not wait for it.
OnWillRestartCancel_NoCancel(h, session) ==
    /\ rst' = [h EXCEPT !.session = session, !.pc = "done",
                        !.chain = IF h.q = 0 THEN "none" ELSE "waiting",
                        !.waitCalled = (h.q # 0)]
    /\ UNCHANGED <<uvars, items, cancelSnap>>

\* onWillRestart from `const pendingCells = ...` on: h is the invocation so far,
\* session whether a session was obtained.
OnWillRestartCancel(h, session) ==
    /\ IF h.q = 0
       THEN /\ rst' = [h EXCEPT !.session = session, !.pc = "done"]
            /\ UNCHANGED <<uvars, items, cancelSnap>>
       ELSE /\ QueueCancel(h.q, TRUE)
            /\ cancelSnap' = cancelSnap \cup QueuedIn(h.q)
            /\ rst' = [h EXCEPT !.session = session, !.chain = "cancelling",
                                !.cancelIssued = TRUE, !.forced = TRUE,
                                !.pc = IF session THEN "done" ELSE "awaitPending"]

\* The kernel starts a restart and runs the willRestart hook: onWillRestart up to
\* `await sessionPromise.catch(...)`, or to `await pendingCells` when no session
\* promise is given.  A restart begins on a started kernel (no call is waiting
\* for kernel.start()) with no interrupt in progress.
OnWillRestart(given) ==
    /\ rst.pc = "idle"
    /\ rst.chain = "none"
    /\ int.pc = "idle"
    /\ ~restarting
    /\ \A c \in Calls : sp[c] # "pending"
    /\ restarting' = TRUE
    /\ LET h == [IdleRst EXCEPT !.q = docQ, !.given = given,
                                !.snap = IF docQ = 0 THEN {} ELSE SeqToSet(items[docQ])]
       IN IF given
          THEN /\ rst' = [h EXCEPT !.pc = "awaitSession"]
               /\ UNCHANGED <<uvars, items, cancelSnap>>
          ELSE OnWillRestartCancel(h, FALSE)
    /\ UNCHANGED <<cvars, nQueues, docQ, qsp, qGen, failed, int,
                   enqOrder, mustPrecede>>
    /\ UNCHANGED svars

\* Variant: the handler returns when the new session could not be obtained.
OnWillRestartResume_ReturnOnFailure(obtained) ==
    /\ rst.pc = "awaitSession"
    /\ IF obtained
       THEN OnWillRestartCancel([rst EXCEPT !.settled = TRUE], TRUE)
       ELSE /\ rst' = [rst EXCEPT !.settled = TRUE, !.pc = "done"]
            /\ UNCHANGED <<uvars, items, cancelSnap>>
    /\ UNCHANGED <<cvars, nQueues, docQ, qsp, qGen, failed, kvars, int,
                   enqOrder, mustPrecede>>
    /\ UNCHANGED svars

\* The new session promise settles (obtained: it resolved) and onWillRestart goes on.
OnWillRestartResume(obtained) ==
    /\ rst.pc = "awaitSession"
    /\ OnWillRestartCancel([rst EXCEPT !.settled = TRUE], obtained)
    /\ UNCHANGED <<cvars, nQueues, docQ, qsp, qGen, failed, kvars, int,
                   enqOrder, mustPrecede>>
    /\ UNCHANGED svars

\* cancel(true) has resolved: .then(() => executionQueue.waitForCompletion().catch(noop)).
RestartCancelResolved ==
    /\ rst.chain = "cancelling"
    /\ rst' = [rst EXCEPT !.chain = "waiting", !.cancelResolved = TRUE, !.waitCalled = TRUE]
    /\ UNCHANGED <<cvars, uvars, qvars, kvars, int, gvars>>
    /\ UNCHANGED svars

\* waitForCompletion() settles once the Queue has drained: pendingCells resolves,
\* and `await pendingCells` of a handler with no session returns.
RestartWaitResolved ==
    /\ rst.chain = "waiting"
    /\ IsEmpty(rst.q)
    /\ rst' = IF rst.pc = "idle" THEN IdleRst
              ELSE [rst EXCEPT !.chain = "resolved",
                               !.pc = IF @ = "awaitPending" THEN "done" ELSE @]
    /\ UNCHANGED <<cvars, uvars, qvars, kvars, int, gvars>>
    /\ UNCHANGED svars

\* The hook has returned and the kernel ends the restart: kernel.restarting
\* resolves and the calls waiting on it call kernel.start().
KernelRestartEnd ==
    /\ restarting
    /\ rst.pc = "done"
    /\ restarting' = FALSE
    /\ qGen' = [q \in QueueIds |-> IF IsEmpty(q) \/ qGen[q] = "next"
                                    THEN "current" ELSE "stale"]
    /\ sp' = [c \in Calls |-> IF sp[c] = "waitRestart" THEN "pending" ELSE sp[c]]
    /\ rst' = IF rst.chain \in {"none", "resolved"} THEN IdleRst
              ELSE [IdleRst EXCEPT !.q = rst.q, !.chain = rst.chain,
                                   !.forced = rst.forced,
                                   !.cancelIssued = rst.cancelIssued,
                                   !.cancelResolved = rst.cancelResolved,
                                   !.waitCalled = rst.waitCalled]
    /\ qsp' = [q \in QueueIds |-> IF qsp[q] = "waitRestart" THEN "pending" ELSE qsp[q]]
    /\ UNCHANGED <<nCalls, kind, qOf, uvars, nQueues, docQ, failed, items, int, gvars>>
    /\ UNCHANGED svars

----------------------------------------------------------------------------
\* NotebookKernelExecution.executeCode, the output loop, for one call

\* The termination triggers of a Request and the result each asks for.
Triggers == {"reply", "errorReply", "cancel", "sessionLost"}

TriggerResult(t) ==
    IF t = "reply" THEN "Succeeded" ELSE IF t = "cancel" THEN "Cancelled" ELSE "Failed"

\* Request.complete(TriggerResult(t)) with the histories: the signal fires if the
\* state changes.
Trigger(t) ==
    /\ triggers' = triggers \cup {t}
    /\ req' = RequestComplete(req, TriggerResult(t))
    /\ first' = IF triggers = {} THEN TriggerResult(t) ELSE first
    /\ fired' = IF req' # req THEN fired + 1 ELSE fired

\* The first next(): the body runs from its top to `await Promise.race(...)`;
\* the Request is created and the handlers are subscribed.  The internal
\* extensions get CodeExecution.fromCode(code, extensionId), without the token;
\* queueCode(code, extensionId, token) of a cancelled token gives a Request that
\* is Cancelled.
GeneratorStart(extensionId) ==
    /\ gen = "start"
    /\ gen' = "race"
    /\ ext' = CodeKind(extensionId)
    /\ codeSession' = "pending"
    /\ tokenAtStart' = token
    /\ IF ~IsInternalExtension(extensionId) /\ token
       THEN /\ triggers' = {"cancel"}
            /\ req' = "Cancelled"
            /\ first' = "Cancelled"
            /\ fired' = 1
       ELSE /\ req' = "Queued"
            /\ UNCHANGED <<triggers, first, fired>>
    /\ UNCHANGED <<outputs, outputsReceived, completed, done, emitted, seen,
                   finallyRan, ended, lateOutput, started, token, mvars, evars, ivars>>

\* The caller cancels its token.  The Queue ends the Request it was given the
\* token for; the listener of lines 277-286 only logs.
CancelToken ==
    /\ ~token
    /\ token' = TRUE
    /\ IF ext = "external"
       THEN Trigger("cancel")
       ELSE UNCHANGED <<triggers, req, first, fired>>
    /\ UNCHANGED <<gen, outputs, outputsReceived, completed, done, emitted, seen,
                   finallyRan, ended, lateOutput, ext, codeSession, started, tokenAtStart,
                   mvars, evars, ivars>>

\* The call's session promise resolves.
StreamSessionResolves ==
    /\ codeSession = "pending"
    /\ codeSession' = "resolved"
    /\ UNCHANGED <<gen, req, outputs, outputsReceived, completed, done, emitted, seen,
                   triggers, first, fired, finallyRan, ended, lateOutput, ext, started,
                   token, tokenAtStart, mvars, evars, ivars>>

\* The call's session promise rejects.  The Queue cancels the Request of another
\* extension with the session error; the `then` of line 220 has no rejection
\* handler, so nothing happens to the Request of an internal extension.
StreamSessionRejects ==
    /\ codeSession = "pending"
    /\ codeSession' = "rejected"
    /\ IF ext = "external"
       THEN Trigger("cancel")
       ELSE UNCHANGED <<triggers, req, first, fired>>
    /\ UNCHANGED <<gen, outputs, outputsReceived, completed, done, emitted, seen,
                   finallyRan, ended, lateOutput, ext, started, token, tokenAtStart,
                   mvars, evars, ivars>>

\* result.start(session), or the Queue admits the Unit: the request is sent.
RequestStarts ==
    /\ codeSession = "resolved"
    /\ req = "Queued"
    /\ ~started
    /\ started' = TRUE
    /\ UNCHANGED <<gen, req, outputs, outputsReceived, completed, done, emitted, seen,
                   triggers, first, fired, finallyRan, ended, lateOutput, ext, codeSession,
                   token, tokenAtStart, mvars, evars, ivars>>

\* The handler of onDidEmitOutput: push, resolve the deferred, make a new one.
\* The finally callback disposes the subscription.
OnDidEmitOutput ==
    /\ started
    /\ ~completed
    /\ emitted < MaxOutputs
    /\ emitted' = emitted + 1
    /\ outputs' = Append(outputs, emitted + 1)
    /\ outputsReceived' = IF gen = "race" THEN "resolved" ELSE outputsReceived
    /\ lateOutput' = (lateOutput \/ gen = "yield")
    /\ UNCHANGED <<gen, req, completed, done, seen, triggers, first, fired,
                   finallyRan, ended, mvars, evars, ivars>>
    /\ UNCHANGED rvars

\* A termination trigger calls Request.complete.  Replies and the loss of the
\* session come to a Request that was started; a Unit waiting in the Queue can be
\* cancelled before.
RequestTrigger(t) ==
    /\ gen # "start"
    /\ t \notin triggers
    /\ started \/ (t = "cancel" /\ ext = "external")
    /\ Trigger(t)
    /\ UNCHANGED <<gen, outputs, outputsReceived, completed, done, emitted, seen,
                   finallyRan, ended, lateOutput, rvars, mvars, evars, ivars>>

\* result.result.finally(() => { completed = true; ... dispose(disposables) }).
ResultFinally ==
    /\ Terminal(req)
    /\ ~completed
    /\ completed' = TRUE
    /\ finallyRan' = finallyRan + 1
    /\ UNCHANGED <<gen, req, outputs, outputsReceived, done, emitted, seen, triggers,
                   first, fired, ended, lateOutput, mvars, evars, ivars>>
    /\ UNCHANGED rvars

\* createDeferredFromPromise(result.result): done settles as result.result did,
\* after the finally callback, which was attached first.  A Request that
\* succeeded resolves; one that failed or was cancelled resolves or rejects.
DoneSettles(outcome) ==
    /\ completed
    /\ done = "pending"
    /\ outcome = "rejected" => req # "Succeeded"
    /\ done' = outcome
    /\ UNCHANGED <<gen, req, outputs, outputsReceived, completed, emitted, seen,
                   triggers, first, fired, finallyRan, ended, lateOutput, mvars, evars, ivars>>
    /\ UNCHANGED rvars

\* Variant: done.completed is tested before the buffer is emptied.
Drain_BreakFirst ==
    IF done # "pending"
    THEN /\ gen' = "returned"
         /\ ended' = ended + 1
         /\ UNCHANGED <<outputs, outputsReceived, seen>>
    ELSE IF outputs # <<>>
    THEN /\ gen' = "yield"
         /\ seen' = Append(seen, Head(outputs))
         /\ outputs' = Tail(outputs)
         /\ UNCHANGED <<outputsReceived, ended>>
    ELSE /\ gen' = "race"
         /\ outputsReceived' = "pending"
         /\ UNCHANGED <<outputs, seen, ended>>

\* From `while (outputs.length)` to the next suspension: yield the next buffered
\* output, or with none left break if done.completed, or await the race again.
Drain ==
    IF outputs # <<>>
    THEN /\ gen' = "yield"
         /\ seen' = Append(seen, Head(outputs))
         /\ outputs' = Tail(outputs)
         /\ UNCHANGED <<outputsReceived, ended>>
    ELSE IF done # "pending"
    THEN /\ gen' = "returned"
         /\ ended' = ended + 1
         /\ UNCHANGED <<outputs, outputsReceived, seen>>
    ELSE /\ gen' = "race"
         /\ outputsReceived' = "pending"
         /\ UNCHANGED <<outputs, seen, ended>>

\* The race settles and the generator goes on.  An output that woke the race came
\* before done settled (the handler is disposed by then), so the race rejects
\* only if no output woke it.
GeneratorResume ==
    /\ gen = "race"
    /\ outputsReceived = "resolved" \/ done # "pending"
    /\ IF outputsReceived = "pending" /\ done = "rejected"
       THEN /\ gen' = "threw"
            /\ ended' = ended + 1
            /\ UNCHANGED <<outputs, outputsReceived, seen>>
       ELSE Drain
    /\ UNCHANGED <<req, completed, done, emitted, triggers, first, fired, finallyRan,
                   lateOutput, mvars, evars, ivars>>
    /\ UNCHANGED rvars

\* The consumer asks for the next output: the generator goes on after the yield.
ConsumerNext ==
    /\ gen = "yield"
    /\ Drain
    /\ UNCHANGED <<req, completed, done, emitted, triggers, first, fired, finallyRan,
                   lateOutput, mvars, evars, ivars>>
    /\ UNCHANGED rvars

StreamNext ==
    \/ \E e \in ExtensionIds : GeneratorStart(e)
    \/ CancelToken
    \/ StreamSessionResolves
    \/ StreamSessionRejects
    \/ RequestStarts
    \/ OnDidEmitOutput
    \/ \E t \in Triggers : RequestTrigger(t)
    \/ ResultFinally
    \/ \E outcome \in {"resolved", "rejected"} : DoneSettles(outcome)
    \/ GeneratorResume
    \/ ConsumerNext

StreamSpec == Init /\ [][StreamNext]_vars

\* The event loop runs every task that is ready, and the consumer keeps pulling.
FairStreamSpec == StreamSpec /\ WF_vars(StreamNext)

----------------------------------------------------------------------------
\* The entry points and event handlers of NotebookKernelExecution, one invocation
\* at a time, with the operations each performs recorded in order (trace).

\* Units of Queue q that are not terminal yet.
PendingOf(q) == {s \in Slots : cells[s].q = q /\ cells[s].unit \in {"queued", "cancelling"}}

\* CellExecutionQueue.isEmpty
QueueIsEmpty(q) == PendingOf(q) = {}

\* cancel(...) on Queue q: its Units are asked to end.
CancelUnits(q) ==
    [s \in Slots |-> IF s \in PendingOf(q)
                     THEN [cells[s] EXCEPT !.unit = "cancelling"]
                     ELSE cells[s]]

\* promise.catch(noop): whatever the promise gave, the awaiting code goes on.
CatchNoop(outcome) == "ok"

\* catch (ex) { success = false; throw ex; }
Rethrow(outcome) == outcome

\* getOrCreateCellExecutionQueue(cell.notebook, sessionPromise)
ExistingQueueUsable ==
    /\ documentExecutions # 0
    /\ ~QueueIsEmpty(documentExecutions)
    /\ ~queues[documentExecutions].failed

GetOrCreateQueue(sessionPromise) ==
    IF ExistingQueueUsable
    THEN UNCHANGED <<documentExecutions, queues>>
    ELSE /\ queues' = Append(queues, [sp |-> sessionPromise, failed |-> FALSE])
         /\ documentExecutions' = Len(queues) + 1

\* Variant: the session is started before the kind of the cell is looked at.
ExecuteCell_StartsFirst(cellKind, sessionOk, slot) ==
    /\ kernelStarts < MaxStarts
    /\ kernelStarts' = kernelStarts + 1
    /\ trace' = [NoTrace EXCEPT !.op = "executeCell", !.cellKind = cellKind,
                                !.calls = <<"kernel.start">>,
                                !.result = IF cellKind = "markup" \/ sessionOk
                                           THEN "ok" ELSE "SessionError"]
    /\ UNCHANGED <<documentExecutions, queues, cells, handler>>
    /\ UNCHANGED <<mvars, ovars, ivars>>

\* executeCell(cell), to its await of waitForCompletion(cell), its early return
\* or the rejection of sessionPromise.
ExecuteCell(cellKind, sessionOk, slot) ==
    IF cellKind = "markup"
    THEN /\ trace' = [NoTrace EXCEPT !.op = "executeCell", !.cellKind = cellKind,
                                     !.result = "ok"]
         /\ UNCHANGED <<documentExecutions, queues, cells, kernelStarts, handler>>
         /\ UNCHANGED <<mvars, ovars, ivars>>
    ELSE /\ kernelStarts < MaxStarts
         /\ cells[slot] = NoCell
         /\ kernelStarts' = kernelStarts + 1
         /\ IF ~sessionOk
            THEN /\ trace' = [NoTrace EXCEPT !.op = "executeCell", !.cellKind = cellKind,
                                             !.calls = <<"kernel.start">>,
                                             !.result = "SessionError"]
                 /\ UNCHANGED <<documentExecutions, queues, cells>>
            ELSE /\ GetOrCreateQueue("resolved")
                 /\ cells' = [cells EXCEPT ![slot] =
                                [q |-> documentExecutions', unit |-> "queued",
                                 outcome |-> "none", resumed |-> FALSE]]
                 /\ trace' = [NoTrace EXCEPT
                                !.op = "executeCell", !.cellKind = cellKind,
                                !.q = documentExecutions',
                                !.calls = <<"kernel.start", "getOrCreateCellExecutionQueue",
                                            "queueCell", "waitForCompletion(cell)">>,
                                !.result = "pending"]
         /\ UNCHANGED handler
         /\ UNCHANGED <<mvars, ovars, ivars>>

\* resumeCellExecution(cell, info), to its await or its early return.
ResumeCellExecution(cellKind, slot) ==
    IF cellKind = "markup"
    THEN /\ trace' = [NoTrace EXCEPT !.op = "resumeCellExecution", !.cellKind = cellKind,
                                     !.result = "ok"]
         /\ UNCHANGED <<documentExecutions, queues, cells, kernelStarts, handler>>
         /\ UNCHANGED <<mvars, ovars, ivars>>
    ELSE /\ kernelStarts < MaxStarts
         /\ cells[slot] = NoCell
         /\ kernelStarts' = kernelStarts + 1
         /\ GetOrCreateQueue("pending")
         /\ cells' = [cells EXCEPT ![slot] =
                        [q |-> documentExecutions', unit |-> "queued",
                         outcome |-> "none", resumed |-> TRUE]]
         /\ trace' = [NoTrace EXCEPT
                        !.op = "resumeCellExecution", !.cellKind = cellKind,
                        !.q = documentExecutions',
                        !.calls = <<"kernel.start", "getOrCreateCellExecutionQueue",
                                    "resumeCell", "waitForCompletion(cell)">>,
                        !.result = "pending"]
         /\ UNCHANGED handler
         /\ UNCHANGED <<mvars, ovars, ivars>>

\* The session promise a Queue was built on settles; a rejection fails the Queue
\* and ends its Units.
QueueSessionSettles(q, ok) ==
    /\ q \in 1 .. Len(queues)
    /\ queues[q].sp = "pending"
    /\ IF ok
       THEN /\ queues' = [queues EXCEPT ![q].sp = "resolved"]
            /\ UNCHANGED cells
       ELSE /\ queues' = [queues EXCEPT ![q].sp = "rejected", ![q].failed = TRUE]
            /\ cells' = CancelUnits(q)
    /\ UNCHANGED <<documentExecutions, kernelStarts, handler, trace>>
    /\ UNCHANGED <<mvars, ovars, ivars>>

\* The Unit of a cell reaches a terminal state: waitForCompletion(cell) settles.
CellUnitEnds(slot, outcome) ==
    /\ cells[slot].unit \in {"queued", "cancelling"}
    /\ IF cells[slot].unit = "queued"
       THEN queues[cells[slot].q].sp = "resolved" /\ outcome # "CancellationError"
       ELSE outcome # "ok"
    /\ cells' = [cells EXCEPT ![slot].unit = "ended", ![slot].outcome = outcome]
    /\ UNCHANGED <<documentExecutions, queues, kernelStarts, handler, trace>>
    /\ UNCHANGED <<mvars, ovars, ivars>>

\* Variant: executeCell reports success whatever the wait gave.
ExecuteCellReturns_Swallows(slot) ==
    /\ cells[slot].unit = "ended"
    /\ ~cells[slot].resumed
    /\ trace' = [NoTrace EXCEPT !.op = "executeCell", !.cellKind = "code",
                                !.q = cells[slot].q, !.wait = cells[slot].outcome,
                                !.result = CatchNoop(cells[slot].outcome)]
    /\ cells' = [cells EXCEPT ![slot] = NoCell]
    /\ UNCHANGED <<documentExecutions, queues, kernelStarts, handler>>
    /\ UNCHANGED <<mvars, ovars, ivars>>

\* executeCell, from its await of waitForCompletion(cell) to its end.
ExecuteCellReturns(slot) ==
    /\ cells[slot].unit = "ended"
    /\ ~cells[slot].resumed
    /\ trace' = [NoTrace EXCEPT !.op = "executeCell", !.cellKind = "code",
                                !.q = cells[slot].q, !.wait = cells[slot].outcome,
                                !.result = Rethrow(cells[slot].outcome)]
    /\ cells' = [cells EXCEPT ![slot] = NoCell]
    /\ UNCHANGED <<documentExecutions, queues, kernelStarts, handler>>
    /\ UNCHANGED <<mvars, ovars, ivars>>

\* resumeCellExecution, from its await to its end: .then(() => true).catch(() => false)
ResumeCellExecutionReturns(slot) ==
    /\ cells[slot].unit = "ended"
    /\ cells[slot].resumed
    /\ trace' = [NoTrace EXCEPT !.op = "resumeCellExecution", !.cellKind = "code",
                                !.q = cells[slot].q, !.wait = cells[slot].outcome,
                                !.result = CatchNoop(cells[slot].outcome)]
    /\ cells' = [cells EXCEPT ![slot] = NoCell]
    /\ UNCHANGED <<documentExecutions, queues, kernelStarts, handler>>
    /\ UNCHANGED <<mvars, ovars, ivars>>

\* Variant: the Queue is cancelled if it is non-empty or already failed.
OnDidCloseNotebookDocument_IfFailed(q, document) ==
    /\ q \in 1 .. Len(queues)
    /\ IF document = "notebook" /\ (queues[q].failed \/ ~QueueIsEmpty(q))
       THEN /\ cells' = CancelUnits(q)
            /\ trace' = [NoTrace EXCEPT !.op = "onDidCloseNotebookDocument", !.q = q,
                                        !.e = document, !.isEmpty = QueueIsEmpty(q),
                                        !.failed = queues[q].failed,
                                        !.calls = <<"cancel(true)">>, !.result = "ok"]
       ELSE /\ trace' = [NoTrace EXCEPT !.op = "onDidCloseNotebookDocument", !.q = q,
                                        !.e = document, !.isEmpty = QueueIsEmpty(q),
                                        !.failed = queues[q].failed, !.result = "ok"]
            /\ UNCHANGED cells
    /\ UNCHANGED <<documentExecutions, queues, kernelStarts, handler>>
    /\ UNCHANGED <<mvars, ovars, ivars>>

\* The handler getOrCreateCellExecutionQueue registered with
\* workspace.onDidCloseNotebookDocument when it built Queue q, for the event of
\* `document` being closed.
OnDidCloseNotebookDocument(q, document) ==
    /\ q \in 1 .. Len(queues)
    /\ IF document = "notebook" /\ (~queues[q].failed \/ ~QueueIsEmpty(q))
       THEN /\ cells' = CancelUnits(q)
            /\ trace' = [NoTrace EXCEPT !.op = "onDidCloseNotebookDocument", !.q = q,
                                        !.e = document, !.isEmpty = QueueIsEmpty(q),
                                        !.failed = queues[q].failed,
                                        !.calls = <<"cancel(true)">>, !.result = "ok"]
       ELSE /\ trace' = [NoTrace EXCEPT !.op = "onDidCloseNotebookDocument", !.q = q,
                                        !.e = document, !.isEmpty = QueueIsEmpty(q),
                                        !.failed = queues[q].failed, !.result = "ok"]
            /\ UNCHANGED cells
    /\ UNCHANGED <<documentExecutions, queues, kernelStarts, handler>>
    /\ UNCHANGED <<mvars, ovars, ivars>>

\* Variant: the handler also waits for the Queue to drain.
RunOnWillCancel_Waits ==
    /\ handler = NoHandler
    /\ IF documentExecutions # 0
       THEN /\ cells' = CancelUnits(documentExecutions)
            /\ handler' = [op |-> "onWillCancel", q |-> documentExecutions,
                           hadUnits |-> ~QueueIsEmpty(documentExecutions)]
            /\ trace' = [NoTrace EXCEPT !.op = "onWillCancel", !.q = documentExecutions,
                                        !.calls = <<"cancel(true)", "waitForCompletion()">>,
                                        !.result = "pending"]
       ELSE /\ trace' = [NoTrace EXCEPT !.op = "onWillCancel", !.result = "ok"]
            /\ UNCHANGED <<cells, handler>>
    /\ UNCHANGED <<documentExecutions, queues, kernelStarts>>
    /\ UNCHANGED <<mvars, ovars, ivars>>

\* onWillCancel, whole.
RunOnWillCancel ==
    /\ IF documentExecutions # 0
       THEN /\ cells' = CancelUnits(documentExecutions)
            /\ trace' = [NoTrace EXCEPT !.op = "onWillCancel", !.q = documentExecutions,
                                        !.calls = <<"cancel(true)">>, !.result = "ok"]
       ELSE /\ trace' = [NoTrace EXCEPT !.op = "onWillCancel", !.result = "ok"]
            /\ UNCHANGED cells
    /\ UNCHANGED <<documentExecutions, queues, kernelStarts, handler>>
    /\ UNCHANGED <<mvars, ovars, ivars>>

\* onWillInterrupt, to its await of waitForCompletion() or its early return.
RunOnWillInterrupt ==
    /\ handler = NoHandler
    /\ IF documentExecutions # 0
       THEN /\ cells' = CancelUnits(documentExecutions)
            /\ handler' = [op |-> "onWillInterrupt", q |-> documentExecutions,
                           hadUnits |-> ~QueueIsEmpty(documentExecutions)]
            /\ trace' = [NoTrace EXCEPT !.op = "onWillInterrupt", !.q = documentExecutions,
                                        !.calls = <<"cancel()", "waitForCompletion()">>,
                                        !.result = "pending"]
       ELSE /\ trace' = [NoTrace EXCEPT !.op = "onWillInterrupt", !.result = "ok"]
            /\ UNCHANGED <<cells, handler>>
    /\ UNCHANGED <<documentExecutions, queues, kernelStarts>>
    /\ UNCHANGED <<mvars, ovars, ivars>>

\* onWillRestart(sessionPromise), to `await pendingCells` or its end; `obtained`
\* is whether a session was given and obtained.
RunOnWillRestart(obtained) ==
    /\ handler = NoHandler
    /\ IF documentExecutions # 0
       THEN /\ cells' = CancelUnits(documentExecutions)
            /\ IF obtained
               THEN /\ trace' = [NoTrace EXCEPT
                                   !.op = "onWillRestart", !.q = documentExecutions,
                                   !.calls = <<"cancel(true)">>, !.result = "ok"]
                    /\ UNCHANGED handler
               ELSE /\ handler' = [op |-> "onWillRestart", q |-> documentExecutions,
                                   hadUnits |-> ~QueueIsEmpty(documentExecutions)]
                    /\ trace' = [NoTrace EXCEPT
                                   !.op = "onWillRestart", !.q = documentExecutions,
                                   !.calls = <<"cancel(true)", "waitForCompletion()">>,
                                   !.result = "pending"]
       ELSE /\ trace' = [NoTrace EXCEPT !.op = "onWillRestart", !.result = "ok"]
            /\ UNCHANGED <<cells, handler>>
    /\ UNCHANGED <<documentExecutions, queues, kernelStarts>>
    /\ UNCHANGED <<mvars, ovars, ivars>>

\* The handler's waitForCompletion().catch(noop) settles once the Queue has
\* drained, with an error if a Unit it waited for failed; the handler ends.
HandlerWaitSettles(waitOutcome) ==
    /\ handler # NoHandler
    /\ QueueIsEmpty(handler.q)
    /\ IF handler.hadUnits THEN TRUE ELSE waitOutcome = "ok"
    /\ trace' = [NoTrace EXCEPT !.op = handler.op, !.q = handler.q,
                                !.calls = <<"waitForCompletion()">>,
                                !.wait = waitOutcome,
                                !.result = CatchNoop(waitOutcome)]
    /\ handler' = NoHandler
    /\ UNCHANGED <<documentExecutions, queues, cells, kernelStarts>>
    /\ UNCHANGED <<mvars, ovars, ivars>>

HandlerNext ==
    \/ \E cellKind \in CellKinds, sessionOk \in BOOLEAN, slot \in Slots :
            ExecuteCell(cellKind, sessionOk, slot)
    \/ \E cellKind \in CellKinds, slot \in Slots : ResumeCellExecution(cellKind, slot)
    \/ \E q \in QueueIds, ok \in BOOLEAN : QueueSessionSettles(q, ok)
    \/ \E slot \in Slots, outcome \in Outcomes : CellUnitEnds(slot, outcome)
    \/ \E slot \in Slots : ExecuteCellReturns(slot)
    \/ \E slot \in Slots : ResumeCellExecutionReturns(slot)
    \/ \E q \in QueueIds, document \in Documents : OnDidCloseNotebookDocument(q, document)
    \/ RunOnWillCancel
    \/ RunOnWillInterrupt
    \/ \E obtained \in BOOLEAN : RunOnWillRestart(obtained)
    \/ \E waitOutcome \in Outcomes : HandlerWaitSettles(waitOutcome)

HandlerSpec == Init /\ [][HandlerNext]_vars

----------------------------------------------------------------------------
\* The broadcast (iopub) display-update handler

\* Variant: the handler is connected whenever the kernel has a session.
HookupIOPubHandler_EveryTime ==
    IF kernelSession = 0
    THEN UNCHANGED <<hookedSesions, connected, rehooked>>
    ELSE /\ hookedSesions' = hookedSesions \cup {kernelSession}
         /\ connected' = [connected EXCEPT ![kernelSession] = @ + 1]
         /\ rehooked' = IF kernelSession \in hookedSesions THEN TRUE ELSE rehooked

\* hookupIOPubHandler()
HookupIOPubHandler ==
    IF kernelSession = 0
    THEN UNCHANGED <<hookedSesions, connected, rehooked>>
    ELSE IF kernelSession \in hookedSesions
         THEN /\ rehooked' = TRUE
              /\ UNCHANGED <<hookedSesions, connected>>
         ELSE /\ hookedSesions' = hookedSesions \cup {kernelSession}
              /\ connected' = [connected EXCEPT ![kernelSession] = @ + 1]
              /\ UNCHANGED rehooked

\* The constructor: the listeners are registered and hookupIOPubHandler is
\* called once, with whatever session the kernel has by then.
Constructor ==
    /\ ~constructed
    /\ constructed' = TRUE
    /\ HookupIOPubHandler
    /\ UNCHANGED <<kernelSession, lastMessage, displayUpdates>>
    /\ UNCHANGED <<mvars, ovars, evars>>

\* kernel.onStatusChanged fires.
OnStatusChanged ==
    /\ constructed
    /\ HookupIOPubHandler
    /\ UNCHANGED <<constructed, kernelSession, lastMessage, displayUpdates>>
    /\ UNCHANGED <<mvars, ovars, evars>>

\* kernel.onRestarted fires.
OnRestarted ==
    /\ constructed
    /\ HookupIOPubHandler
    /\ UNCHANGED <<constructed, kernelSession, lastMessage, displayUpdates>>
    /\ UNCHANGED <<mvars, ovars, evars>>

\* The kernel gets a session, replaces it or loses it (0).
KernelSessionBecomes(instance) ==
    /\ instance # kernelSession
    /\ kernelSession' = instance
    /\ UNCHANGED <<constructed, hookedSesions, connected, rehooked, lastMessage,
                   displayUpdates>>
    /\ UNCHANGED <<mvars, ovars, evars>>

\* A session delivers one iopub message to every handler connected to it; a
\* handler fires onDidReceiveDisplayUpdate for a display message whose display
\* id is tracked for an extension.
IOPubMessage(from, msg_type, tracked) ==
    /\ lastMessage' = [from |-> from, msg_type |-> msg_type, tracked |-> tracked]
    /\ displayUpdates' =
          IF msg_type \in {"update_display_data", "display_data"} /\ tracked
          THEN connected[from]
          ELSE 0
    /\ UNCHANGED <<constructed, kernelSession, hookedSesions, connected, rehooked>>
    /\ UNCHANGED <<mvars, ovars, evars>>

IOPubNext ==
    \/ Constructor
    \/ OnStatusChanged
    \/ OnRestarted
    \/ \E instance \in 0 .. MaxSessions : KernelSessionBecomes(instance)
    \/ \E from \in Sessions, msg_type \in MessageTypes, tracked \in BOOLEAN :
            IOPubMessage(from, msg_type, tracked)

IOPubSpec == Init /\ [][IOPubNext]_vars

----------------------------------------------------------------------------

Next ==
    \/ ExecuteCellCall
    \/ \E c \in Calls : ExecuteCellResume(c)
    \/ \E c \in Calls : ExecuteCellThrow(c)
    \/ \E e \in ExtensionIds : ExecuteCode(e)
    \/ \E c \in Calls : ResultStart(c)
    \/ \E c \in Calls : ResultNeverStarts(c)
    \/ \E q \in QueueIds : SessionResolve(q)
    \/ \E q \in QueueIds : SessionReject(q)
    \/ \E q \in QueueIds : QueueAdmit(q)
    \/ \E q \in QueueIds : QueueSessionRejected(q)
    \/ \E c \in Calls, r \in {"Succeeded", "Failed", "Cancelled"} : UnitReply(c, r)
    \/ \E c \in Calls : UnitSessionLost(c)
    \/ OnWillInterrupt
    \/ OnWillInterruptWait
    \/ OnWillInterruptDone
    \/ OnWillCancel
    \/ \E given \in BOOLEAN : OnWillRestart(given)
    \/ \E obtained \in BOOLEAN : OnWillRestartResume(obtained)
    \/ RestartCancelResolved
    \/ RestartWaitResolved
    \/ KernelRestartEnd

Spec == Init /\ [][Next]_vars

----------------------------------------------------------------------------
\* Properties

Running == {c \in Calls : st[c] = "Running"}

Enqueued(i) == enqOrder[i]

UnitsOf(q) == {c \in Calls : qOf[c] = q}

\* C1: Units are transmitted in the order they were enqueued, none before every
\* Unit enqueued earlier is terminal, and at most one Unit of a Queue is running.
\* Stated over all the Units enqueued for the document, whichever Queue instance
\* they were put in.
C1_InOrderOneAtATime ==
    /\ \A i, j \in 1..Len(enqOrder) :
          (i < j /\ sent[Enqueued(j)]) => Terminal(st[Enqueued(i)])
    /\ \A q \in QueueIds : Cardinality(UnitsOf(q) \cap Running) <= 1

\* Three Units enqueued on one Queue: the first two succeeded and the third runs.
C1_Witness ==
    /\ Len(enqOrder) >= 3
    /\ qOf[Enqueued(1)] = qOf[Enqueued(2)]
    /\ qOf[Enqueued(2)] = qOf[Enqueued(3)]
    /\ st[Enqueued(1)] = "Succeeded"
    /\ st[Enqueued(2)] = "Succeeded"
    /\ st[Enqueued(3)] = "Running"

\* C2: every Unit that was queued and not started when a cancel was issued on its
\* Queue is Cancelled and is never transmitted.
C2_CancelledNeverSent ==
    \A u \in cancelSnap : st[u] = "Cancelled" /\ ~sent[u]

\* Code of another extension was queued and cancelled before the session promise
\* of its Queue settled, next to a Unit that had been queued behind a running one.
C2_Witness ==
    \E u, v \in cancelSnap :
        /\ kind[u] = "external"
        /\ qsp[qOf[u]] = "pending"
        /\ v # u
        /\ qsp[qOf[v]] = "resolved"

\* C3: a Unit enqueued while a cancel of the Queue had not resolved is transmitted
\* only after every Unit that cancel covers is terminal.  The Units the cancel
\* found queued are terminal from the call on; mustPrecede holds the one it still
\* waits for.
C3_NoStartAfterCancelRace ==
    \A c \in Calls : sent[c] => \A u \in mustPrecede[c] : Terminal(st[u])

\* A Unit enqueued under an unresolved cancel has been transmitted.
C3_Witness ==
    \E c \in Calls : st[c] = "Running" /\ mustPrecede[c] # {}

\* C6: when the session promise of a Queue rejects the Queue is failed, every Unit
\* queued in it ends Cancelled with SessionUnavailable and is never transmitted,
\* and no Unit is put in a failed Queue.
C6_FailedQueueNotReused ==
    \A q \in QueueIds :
        failed[q] =>
            /\ IsEmpty(q)
            /\ q = docQ => ~CanReuse
            /\ \A c \in UnitsOf(q) :
                  /\ st[c] = "Cancelled"
                  /\ ~sent[c]
                  /\ cause[c] = "SessionUnavailable" \/ c \in cancelSnap

\* Two Units of a failed Queue, one of them a cell, ended with SessionUnavailable,
\* and a later Unit is in another Queue, constructed for it.
C6_Witness ==
    \E q \in QueueIds, a, b, c \in Calls :
        /\ failed[q]
        /\ a # b
        /\ kind[a] = "cell"
        /\ qOf[a] = q /\ cause[a] = "SessionUnavailable"
        /\ qOf[b] = q /\ cause[b] = "SessionUnavailable"
        /\ qOf[c] > q
        /\ docQ = qOf[c]

\* C7 as stated: at most one execution is running on the session, whatever
\* extension submitted it.
C7_AtMostOneRunningAnyExtension == Cardinality(Running) <= 1

\* C7: at most one of the executions submitted through the Queue (cells, and code
\* of extensions other than the internal ones) is running.
C7_AtMostOneQueuedRunning ==
    Cardinality({c \in Running : kind[c] # "internal"}) <= 1

\* A cell runs, code of another extension waits behind it in the Queue, and code
\* of an internal extension runs at the same time.
C7_Witness ==
    \E a, b, c \in Calls :
        /\ kind[a] = "cell" /\ st[a] = "Running"
        /\ kind[b] = "external" /\ st[b] = "Queued" /\ qOf[b] = qOf[a]
        /\ kind[c] = "internal" /\ st[c] = "Running"

\* C8: when a handler has called waitForCompletion() on the Queue, it has issued
\* cancel on it and that cancel has resolved; interrupt cancels with
\* forceful = false, restart with forceful = true.
C8_CancelBeforeWait ==
    /\ int.waitCalled =>
          int.cancelIssued /\ int.cancelResolved /\ CancelSettled(int.awaits)
    /\ int.cancelIssued => ~int.forced
    /\ rst.waitCalled => rst.cancelIssued /\ rst.cancelResolved
    /\ rst.cancelIssued => rst.forced

\* The interrupt handler waits for the Queue after a cancel that had to wait for
\* the running Unit, while the wait of an earlier restart is still pending.
C8_Witness ==
    /\ int.waitCalled
    /\ int.awaits # 0
    /\ rst.waitCalled

\* C9: the restart handler cancels only once the session promise it was given has
\* settled, always with forceful = true; it does not return without having
\* cancelled the Queue, and with no session it does not return before the Queue
\* has drained.
C9_RestartCancelsAfterSession ==
    /\ rst.cancelIssued => rst.forced /\ (rst.given => rst.settled)
    /\ rst.waitCalled => rst.cancelIssued
    /\ (rst.pc = "done" /\ rst.q # 0) => rst.cancelIssued
    /\ (rst.pc = "done" /\ rst.q # 0 /\ ~rst.session) =>
          rst.chain = "resolved" /\ IsEmpty(rst.q)

\* The handler has returned after the session promise rejected: the Units of the
\* Queue were cancelled and the Queue drained.
C9_Witness ==
    /\ rst.pc = "done"
    /\ rst.given
    /\ rst.settled
    /\ ~rst.session
    /\ rst.snap # {}

C4_CompletesOnce ==
    /\ fired <= 1
    /\ finallyRan <= 1
    /\ ended <= 1
    /\ triggers # {} => (fired = 1 /\ req = first)
    /\ completed => fired = 1
    /\ gen \in {"returned", "threw"} => (ended = 1 /\ finallyRan = 1 /\ fired = 1)

\* All the triggers have occurred and the consumer has seen the sequence end.
C4_Witness ==
    /\ triggers = Triggers
    /\ gen = "returned"
    /\ first = "Cancelled"

\* C5: the consumer is handed the outputs the Request emitted, each once and in
\* emission order: what it has seen followed by the buffer is the emitted
\* sequence, and nothing is left in the buffer when the sequence ends.
C5_OutputsInOrderNoneDropped ==
    /\ seen \o outputs = [i \in 1..emitted |-> i]
    /\ gen \in {"returned", "threw"} => outputs = <<>>

\* The sequence has ended and the consumer has seen every output, one of which
\* arrived while the generator was suspended at a yield.
C5_Witness ==
    /\ gen = "returned"
    /\ Len(seen) = emitted
    /\ emitted >= 3
    /\ lateOutput

\* C13 as stated: the output sequence of a Request that failed does not end
\* normally.  Stated for a failure that rejected result.result, the only one the
\* generator can tell from a success.
C13_FailureSurfaced ==
    gen = "returned" => ~(req = "Failed" /\ done = "rejected")

\* C15: the interrupt handler is never blocked on a Queue with nothing pending:
\* cancel() has resolved, and waitForCompletion() resolves at once.
C15_InterruptOnEmptyQueueGoesOn ==
    /\ (int.pc = "cancelling" /\ IsEmpty(int.q)) => ENABLED OnWillInterruptWait
    /\ (int.pc = "waiting" /\ IsEmpty(int.q)) => ENABLED OnWillInterruptDone

\* The handler was invoked on a Queue with nothing running and has reached its
\* wait on the Queue, now empty.
C15_Witness ==
    /\ int.pc = "waiting"
    /\ int.awaits = 0
    /\ IsEmpty(int.q)

\* C16: a Unit is ended without being transmitted only by a cancel of its Queue or
\* by the rejection of the Queue's session promise, never by the failure of
\* another Unit; a Queue is failed only by that rejection, so the Unit at the head
\* of a Queue whose session resolved can be admitted.
C16_FailureDoesNotAbortSiblings ==
    /\ \A c \in Calls :
          (Terminal(st[c]) /\ ~sent[c]) =>
              \/ c \in cancelSnap
              \/ cause[c] = "SessionUnavailable" /\ failed[qOf[c]]
    /\ \A q \in QueueIds : failed[q] => qsp[q] = "rejected"
    /\ \A q \in QueueIds :
          (q <= nQueues /\ ~IsEmpty(q) /\ qsp[q] = "resolved"
           /\ st[Head(items[q])] = "Queued") => ENABLED QueueAdmit(q)

\* A Unit failed with a remote error, another with a lost session, and the Unit
\* queued behind them in the same Queue runs.
C16_Witness ==
    /\ Len(enqOrder) >= 3
    /\ qOf[Enqueued(1)] = qOf[Enqueued(3)]
    /\ qOf[Enqueued(2)] = qOf[Enqueued(3)]
    /\ cause[Enqueued(1)] = "RemoteExecutionError"
    /\ cause[Enqueued(2)] = "SessionLost"
    /\ st[Enqueued(3)] = "Running"

\* C20: only the document's current Queue holds Units that are not terminal: a
\* Queue that has been replaced holds none, then and afterwards.
C20_OneLiveQueue ==
    \A q \in QueueIds :
        (q <= nQueues /\ q # docQ) =>
            IsEmpty(q) /\ \A c \in UnitsOf(q) : Terminal(st[c])

\* Three Queues were constructed: one replaced after its session promise rejected,
\* one replaced after it drained, and the current one with a Unit running.
C20_Witness ==
    /\ nQueues = 3
    /\ docQ = 3
    /\ \E q \in {1, 2} : failed[q]
    /\ \E q \in {1, 2} : ~failed[q]
    /\ \E c \in UnitsOf(3) : st[c] = "Running"

\* C14 as stated, for a token cancelled before the call: the Request ends Cancelled.
C14_PreCancelledTokenHonoured ==
    (tokenAtStart /\ Terminal(req)) => req = "Cancelled"

\* C19 as stated: once the session promise has rejected, the output sequence ends.
C19_EndsWhenSessionRejects ==
    (codeSession = "rejected") ~> (gen \in {"returned", "threw"})

\* C11 as stated: closing the Queue's document cancels the Queue exactly when the
\* Queue is non-empty or already failed; closing another document never does.
C11_CancelIffNonEmptyOrFailed ==
    trace.op = "onDidCloseNotebookDocument" =>
        (trace.calls = <<"cancel(true)">>
            <=> (trace.e = "notebook" /\ (~trace.isEmpty \/ trace.failed)))

\* C11, amended: closing the Queue's document issues cancel(forceful=true) on the
\* Queue exactly when the Queue is non-empty or has not failed (that is, unless it
\* is both empty and failed); closing another document issues no cancel.
C11_CancelUnlessEmptyAndFailed ==
    trace.op = "onDidCloseNotebookDocument" =>
        /\ trace.calls \in {<<>>, <<"cancel(true)">>}
        /\ trace.calls = <<"cancel(true)">>
             <=> (trace.e = "notebook" /\ (~trace.isEmpty \/ ~trace.failed))

\* The document of an empty Queue that has not failed is closed: cancel is issued.
C11_Witness ==
    /\ trace.op = "onDidCloseNotebookDocument"
    /\ trace.e = "notebook"
    /\ trace.isEmpty
    /\ ~trace.failed
    /\ trace.calls = <<"cancel(true)">>

\* C12: the interrupt and restart handlers end normally whatever their
\* waitForCompletion() gave; executeCell of a code cell ends with exactly what
\* waitForCompletion(cell) gave, so it fails with the same error and succeeds
\* only if the wait succeeded.
C12_WaitErrorsSwallowedOrRethrown ==
    /\ (trace.op \in {"onWillInterrupt", "onWillRestart"} /\ trace.result # "pending")
          => trace.result = "ok"
    /\ (trace.op = "executeCell" /\ trace.wait # "none") => trace.result = trace.wait
    /\ (trace.op = "executeCell" /\ trace.cellKind = "code" /\ trace.result = "ok")
          => trace.wait = "ok"

\* executeCell failed with the error its wait gave.
C12_Witness ==
    /\ trace.op = "executeCell"
    /\ trace.wait = "CellExecutionError"
    /\ trace.result = "CellExecutionError"

\* C17: executeCell and resumeCellExecution on a markup cell start no session,
\* create or replace no Queue, enqueue nothing and end normally.
C17_MarkupIsNoOp ==
    [][\A slot \in Slots :
          ((\E sessionOk \in BOOLEAN : ExecuteCell("markup", sessionOk, slot))
              \/ ResumeCellExecution("markup", slot))
          => /\ UNCHANGED <<documentExecutions, queues, cells, kernelStarts>>
             /\ trace'.calls = <<>>
             /\ trace'.result = "ok"]_vars

\* A markup cell was submitted while the document's Queue held a Unit.
C17_Witness ==
    /\ trace.op \in {"executeCell", "resumeCellExecution"}
    /\ trace.cellKind = "markup"
    /\ documentExecutions # 0
    /\ ~QueueIsEmpty(documentExecutions)

\* C18: onWillCancel issues cancel(forceful=true) on the document's Queue and
\* nothing else, never waits for the Queue, is never blocked, and does nothing
\* when the document has no Queue.
C18_CancelOnlyNoWait ==
    /\ trace.op = "onWillCancel" =>
          /\ trace.result = "ok"
          /\ trace.calls = IF trace.q # 0 THEN <<"cancel(true)">> ELSE <<>>
    /\ handler.op # "onWillCancel"
    /\ ENABLED RunOnWillCancel

\* onWillCancel has ended while the Queue it cancelled has not drained.
C18_Witness ==
    /\ trace.op = "onWillCancel"
    /\ trace.result = "ok"
    /\ trace.q # 0
    /\ ~QueueIsEmpty(trace.q)

\* C21 as stated: cells are enqueued in the order executeCell was called (calls
\* are numbered in the order they were made), whichever session promise resolves
\* first.
C21_EnqueuedInCallOrder ==
    \A i, j \in 1 .. Len(enqOrder) :
        (i < j /\ kind[Enqueued(i)] = "cell" /\ kind[Enqueued(j)] = "cell")
            => Enqueued(i) < Enqueued(j)

\* C22: whatever status-changed and restarted events occur, every session
\* instance has the display-update handler connected at most once, exactly the
\* sessions in hookedSesions have it, none is connected for an undefined
\* session, and one tracked display message fires at most one
\* onDidReceiveDisplayUpdate event.
C22_HookedAtMostOnce ==
    /\ \A i \in 0 .. MaxSessions : connected[i] <= 1
    /\ \A i \in 0 .. MaxSessions : connected[i] = 1 <=> i \in hookedSesions
    /\ 0 \notin hookedSesions
    /\ displayUpdates <= 1
    /\ ~constructed => hookedSesions = {}

\* Every session instance was hooked, the hook ran again for a hooked session,
\* and a tracked display message fired its one event.
C22_Witness ==
    /\ hookedSesions = Sessions
    /\ rehooked
    /\ lastMessage.tracked
    /\ lastMessage.msg_type = "update_display_data"
    /\ displayUpdates = 1

====
